---------------------------- MODULE Spec2Model ----------------------------
(***************************************************************************)
(* DocuChain ledger (src/r3/blockchain.py): Block, proof-of-work sealing,  *)
(* DocumentBlockchain and its persistence, as a state machine.             *)
(*                                                                         *)
(* Strings that the code only compares are TLA+ strings.  A timestamp      *)
(* (datetime.now().isoformat()) is the reading of a clock that advances    *)
(* with every reading.  A hash string is a sequence of digits: the         *)
(* sentinel "0" is <<0>>, and a SHA-256 hex digest is MaxDifficulty        *)
(* leading digits (a deterministic mix of the hashed text) followed by the *)
(* hashed text itself, so that two digests are equal exactly when the      *)
(* hashed texts are: the digest is collision-free and its leading digits   *)
(* vary with the nonce.                                                    *)
(***************************************************************************)
EXTENDS Integers, Sequences, FiniteSets, TLC

\* ------------------------------------------------------------- bounds
\* The difficulties a ledger is constructed with.
Difficulties == {0, 1, 2, 3}
\* The number of leading digits of a digest the model keeps: enough for
\* hash[:difficulty] at every difficulty.
MaxDifficulty == Cardinality(Difficulties) - 1
\* Size of the digit alphabet of a modelled digest (hex has 16).
HexBase == 2
\* Number of clock readings (Block constructions) in one behaviour.
MaxClock == 3

VARIABLES
    chain,       \* DocumentBlockchain.chain: sequence of Block records
    difficulty,  \* DocumentBlockchain.difficulty
    file,        \* blockchain_data.json: whether it exists, and its text
    clock,       \* datetime.now(): the last reading handed out
    tampered,    \* position of the block or file record changed from outside, or 0
    ret,         \* the last operation: its name, argument, result, and the
                 \* number of "Block mined" lines it printed
    pc,          \* per thread: the statement it is at inside an operation
    frame        \* per thread: the locals of the operation it is inside

vars == <<chain, difficulty, file, clock, tampered, ret, pc, frame>>

\* The threads that call into the ledger (Flask serves each request on its own).
Threads == {1, 2}
\* The locals of a thread that is inside no operation.
NoFrame == [op |-> "idle"]

\* ------------------------------------------------------------ strings
None == "None"
\* The file system without blockchain_data.json.
NoFile == [exists |-> FALSE, text |-> <<>>]
Sentinel == <<0>>

\* Every string a payload holds, in a fixed order (used to mix digests).
Strings ==
    <<"genesis", "Genesis Block - DocuChain System", "document", "draft",
      "h1", "h2", "alice", "bob">>

StrCode(s) == CHOOSE i \in 1..Len(Strings) : Strings[i] = s

\* The payload keys in lexicographic order, the order sort_keys=True gives.
KeyOrder == <<"document_hash", "message", "recipient_id", "type">>

GenesisData == [type |-> "genesis", message |-> "Genesis Block - DocuChain System"]

\* The payloads callers hand to add_document.
Payloads ==
    { [type |-> "document", document_hash |-> "h1", recipient_id |-> "alice"],
      [type |-> "document", document_hash |-> "h2", recipient_id |-> "bob"],
      [type |-> "draft", document_hash |-> "h1", recipient_id |-> "bob"] }

\* dict.get(key): None when the key is absent.
Get(d, k) == IF k \in DOMAIN d THEN d[k] ELSE None

\* ------------------------------------------------------------ hashing
Min(a, b) == IF a < b THEN a ELSE b

RECURSIVE Pow(_, _)
Pow(b, e) == IF e = 0 THEN 1 ELSE b * Pow(b, e - 1)

Modulus == Pow(HexBase, MaxDifficulty)

\* A JSON object written with sort_keys=True: its <<key, value>> pairs in
\* key order.
SortedPairs(d) ==
    LET keys == SelectSeq(KeyOrder, LAMBDA k : k \in DOMAIN d)
    IN  [i \in 1..Len(keys) |-> <<keys[i], d[keys[i]]>>]

\* json.dumps({...}, sort_keys=True) of a block's five hashed fields.
block_string(b) ==
    << <<"data", SortedPairs(b.data)>>,
       <<"index", b.index>>,
       <<"nonce", b.nonce>>,
       <<"previous_hash", b.previous_hash>>,
       <<"timestamp", b.timestamp>> >>

RECURSIVE SumCodes(_, _)
SumCodes(pairs, i) ==
    IF i > Len(pairs) THEN 0
    ELSE i * StrCode(pairs[i][2]) + SumCodes(pairs, i + 1)

\* The leading digits of a hash string as a number.
RECURSIVE HeadNum(_, _)
HeadNum(h, i) ==
    IF i > Min(Len(h), MaxDifficulty) THEN 0
    ELSE i * h[i] + HeadNum(h, i + 1)

\* The mix that decides a digest's leading digits.
Weight(s) ==
    ( SumCodes(s[1][2], 1) + 3 * s[2][2] + 7 * s[3][2]
      + HeadNum(s[4][2], 1) + Len(s[4][2]) + 5 * s[5][2] ) % Modulus

\* The MaxDifficulty digits of n, most significant first.
Digits(n) ==
    [i \in 1..MaxDifficulty |-> (n \div Pow(HexBase, MaxDifficulty - i)) % HexBase]

\* hashlib.sha256(text).hexdigest()
Sha256(s) == Digits(Weight(s)) \o <<s>>

calculate_hash(b) == Sha256(block_string(b))

\* Block.__init__
Block(index, timestamp, data, previous_hash) ==
    LET b0 == [index |-> index, timestamp |-> timestamp, data |-> data,
               previous_hash |-> previous_hash, nonce |-> 0, hash |-> Sentinel]
    IN  [b0 EXCEPT !.hash = calculate_hash(b0)]

\* s[:n]
Take(s, n) == SubSeq(s, 1, Min(n, Len(s)))

\* "0" * n
Zeros(n) == [i \in 1..n |-> 0]

\* One pass of the loop body of mine_block: nonce += 1; hash = calculate_hash().
MineStep(b) ==
    LET b1 == [b EXCEPT !.nonce = b.nonce + 1]
    IN  [b1 EXCEPT !.hash = calculate_hash(b1)]

\* Block.mine_block: the block when the loop exits.
RECURSIVE mine_block(_, _)
mine_block(b, d) ==
    IF Take(b.hash, d) # Zeros(d) THEN mine_block(MineStep(b), d) ELSE b

\* Block.to_dict
to_dict(b) ==
    [index |-> b.index, timestamp |-> b.timestamp, data |-> b.data,
     previous_hash |-> b.previous_hash, nonce |-> b.nonce, hash |-> b.hash]

\* ------------------------------------------------------- persistence
\* The keys of to_dict's result in the order it inserts them, which is the
\* order json.dump writes them in.
ToDictKeys == <<"index", "timestamp", "data", "previous_hash", "nonce", "hash">>

\* A dict as json.dump writes it: its <<key, value>> pairs, keys in `order`.
DumpObject(d, order) ==
    LET keys == SelectSeq(order, LAMBDA k : k \in DOMAIN d)
    IN  [i \in 1..Len(keys) |-> <<keys[i], d[keys[i]]>>]

\* One block's record in the file: to_dict's dict with its nested data dict.
DumpBlock(b) ==
    DumpObject([to_dict(b) EXCEPT !.data = DumpObject(b.data, KeyOrder)], ToDictKeys)

\* json.dump(chain_data, f): the JSON array, one object per block.
json_dump(c) == [i \in 1..Len(c) |-> DumpBlock(c[i])]

\* A JSON object as json.load returns it: a dict; a repeated key keeps its
\* last value.
ParseObject(pairs) ==
    [k \in {pairs[i][1] : i \in 1..Len(pairs)} |->
        LET last == CHOOSE i \in 1..Len(pairs) :
                       /\ pairs[i][1] = k
                       /\ \A j \in (i + 1)..Len(pairs) : pairs[j][1] # k
        IN  pairs[last][2]]

\* json.load(f): a list of dicts, the nested data object a dict too.
json_load(text) ==
    [i \in 1..Len(text) |->
        LET d == ParseObject(text[i])
        IN  IF "data" \in DOMAIN d
            THEN [d EXCEPT !["data"] = ParseObject(d["data"])]
            ELSE d]

\* Mutant: the stored nonce is not written over the constructor's.
LoadBlockKeepsNonce(block_data) ==
    LET block == Block(block_data["index"], block_data["timestamp"],
                       block_data["data"], block_data["previous_hash"])
    IN  [block EXCEPT !.hash = block_data["hash"]]

\* Mutant: the stored hash is not written over the constructor's.
LoadBlockKeepsHash(block_data) ==
    LET block == Block(block_data["index"], block_data["timestamp"],
                       block_data["data"], block_data["previous_hash"])
    IN  [block EXCEPT !.nonce = block_data["nonce"]]

\* The body of load_from_file's loop for one record: Block(...), then the
\* stored nonce and hash written over the constructor's.
LoadBlock(block_data) ==
    LET block == Block(block_data["index"], block_data["timestamp"],
                       block_data["data"], block_data["previous_hash"])
    IN  [block EXCEPT !.nonce = block_data["nonce"], !.hash = block_data["hash"]]

\* A record lacking one of the keys the loop body reads raises KeyError.
RaisesKeyError(block_data) ==
    \E k \in {"index", "timestamp", "data", "previous_hash", "nonce", "hash"} :
        k \notin DOMAIN block_data

\* load_from_file's loop from record i on, self.chain being c: the chain and
\* the outcome when the loop ends or a record raises.
RECURSIVE load_loop(_, _, _)
load_loop(chain_data, i, c) ==
    IF i > Len(chain_data) THEN [chain |-> c, value |-> TRUE]
    ELSE IF RaisesKeyError(chain_data[i]) THEN [chain |-> c, value |-> "KeyError"]
    ELSE load_loop(chain_data, i + 1, Append(c, LoadBlock(chain_data[i])))

\* ------------------------------------------------------------ queries
\* Mutant: the first block instead of the last.
get_latest_block_first(c) == c[1]

get_latest_block(c) == c[Len(c)]

\* Mutant: the loop without the check of the block's own hash.
RECURSIVE valid_loop_links_only(_, _)
valid_loop_links_only(c, i) ==
    IF i >= Len(c) THEN TRUE
    ELSE IF c[i + 1].previous_hash # c[i].hash THEN FALSE
    ELSE valid_loop_links_only(c, i + 1)

\* Mutant: the validation without the comparison of previous_hash.
RECURSIVE valid_loop_digests_only(_, _)
valid_loop_digests_only(c, i) ==
    IF i >= Len(c) THEN TRUE
    ELSE IF c[i + 1].hash # calculate_hash(c[i + 1]) THEN FALSE
         ELSE valid_loop_digests_only(c, i + 1)

\* is_chain_valid's loop from position i (0-based, as in the code) on.
RECURSIVE valid_loop(_, _)
valid_loop(c, i) ==
    IF i >= Len(c) THEN TRUE
    ELSE LET current_block == c[i + 1]
             previous_block == c[i]
         IN  IF current_block.hash # calculate_hash(current_block) THEN FALSE
             ELSE IF current_block.previous_hash # previous_block.hash THEN FALSE
             ELSE valid_loop(c, i + 1)

\* Mutant: the loop starts one block late.
IsChainValidFromTwo(c) == valid_loop(c, 2)

IsChainValid(c) == valid_loop(c, 1)

\* Mutant: the scan goes on after a match and returns the last one.
RECURSIVE verify_loop_last(_, _, _)
verify_loop_last(c, i, document_hash) ==
    IF i >= Len(c) THEN None
    ELSE LET block == c[i + 1]
             later == verify_loop_last(c, i + 1, document_hash)
         IN  IF Get(block.data, "document_hash") = document_hash
                /\ \A pos \in (i + 2)..Len(c) :
                       Get(c[pos].data, "document_hash") # document_hash
             THEN [valid |-> TRUE, block_number |-> block.index,
                   timestamp |-> block.timestamp, data |-> block.data]
             ELSE later

\* verify_document's loop over chain[1:] from position i (0-based) on.
RECURSIVE verify_loop(_, _, _)
verify_loop(c, i, document_hash) ==
    IF i >= Len(c) THEN None
    ELSE LET block == c[i + 1]
         IN  IF Get(block.data, "document_hash") = document_hash
             THEN [valid |-> TRUE, block_number |-> block.index,
                   timestamp |-> block.timestamp, data |-> block.data]
             ELSE verify_loop(c, i + 1, document_hash)

\* {"block_number": ..., "timestamp": ..., **block.data}: data's keys win.
DocumentRecord(block) ==
    LET head == [block_number |-> block.index, timestamp |-> block.timestamp]
    IN  [k \in DOMAIN head \cup DOMAIN block.data |->
            IF k \in DOMAIN block.data THEN block.data[k] ELSE head[k]]

\* Mutant: the records collected newest first.
RECURSIVE documents_loop_newest_first(_, _, _, _)
documents_loop_newest_first(c, i, key, wanted) ==
    IF i >= Len(c) THEN <<>>
    ELSE LET block == c[i + 1]
             rest == documents_loop_newest_first(c, i + 1, key, wanted)
         IN  IF Get(block.data, key) = wanted
             THEN rest \o <<DocumentRecord(block)>>
             ELSE rest

\* The loop shared by get_all_documents (key "type") and
\* get_documents_by_recipient (key "recipient_id") over chain[1:].
RECURSIVE documents_loop(_, _, _, _)
documents_loop(c, i, key, wanted) ==
    IF i >= Len(c) THEN <<>>
    ELSE LET block == c[i + 1]
             rest == documents_loop(c, i + 1, key, wanted)
         IN  IF Get(block.data, key) = wanted
             THEN <<DocumentRecord(block)>> \o rest
             ELSE rest

GetAllDocuments(c) == documents_loop(c, 1, "type", "document")

GetDocumentsByRecipient(c, recipient_id) ==
    documents_loop(c, 1, "recipient_id", recipient_id)

\* --------------------------------------------------------- operations
DocumentHashes == {"h1", "h3"}

RecipientIds == {"bob", "carol"}

\* DocumentBlockchain.create_genesis_block on chain c at clock reading t.
create_genesis_block(c, d, t) ==
    Append(c, mine_block(Block(0, t, GenesisData, Sentinel), d))

\* The state after DocumentBlockchain(difficulty=d) in a directory that holds
\* no blockchain_data.json.
Init ==
    \E d \in Difficulties :
        /\ chain = create_genesis_block(<<>>, d, 1)
        /\ difficulty = d
        /\ file = NoFile
        /\ clock = 1
        /\ tampered = 0
        /\ ret = [op |-> "DocumentBlockchain", arg |-> d, value |-> None, mined |-> 1]
        /\ pc = [t \in Threads |-> "idle"]
        /\ frame = [t \in Threads |-> NoFrame]

\* DocumentBlockchain.__init__: a process starts and constructs its ledger;
\* the file, if any, is what an earlier process left.
DocumentBlockchain(d) ==
    /\ clock < MaxClock
    /\ chain' = create_genesis_block(<<>>, d, clock + 1)
    /\ difficulty' = d
    /\ clock' = clock + 1
    /\ ret' = [op |-> "DocumentBlockchain", arg |-> d, value |-> None, mined |-> 1]
    /\ UNCHANGED <<file, tampered, pc, frame>>

\* Mutant: the new block appended without mine_block.
NewBlockUnsealed(c, t, document_data, d) ==
    Block(Len(c), t, document_data, get_latest_block(c).hash)

\* Mutant: the new block numbered from 1.
NewBlockNumberedFromOne(c, t, document_data, d) ==
    mine_block(Block(Len(c) + 1, t, document_data, get_latest_block(c).hash), d)

\* add_document's new_block once mine_block has returned: built on chain c
\* at clock reading t, sealed at difficulty d.
NewBlock(c, t, document_data, d) ==
    mine_block(Block(Len(c), t, document_data, get_latest_block(c).hash), d)

\* DocumentBlockchain.add_document.  The constructor's arguments are
\* evaluated in order: the clock is read before get_latest_block() raises
\* IndexError on an empty chain.
add_document(document_data) ==
    /\ clock < MaxClock
    /\ clock' = clock + 1
    /\ IF chain = <<>>
       THEN /\ chain' = chain
            /\ ret' = [op |-> "add_document", arg |-> document_data,
                       value |-> "IndexError", mined |-> 0]
       ELSE LET new_block == NewBlock(chain, clock + 1, document_data, difficulty)
            IN  /\ chain' = Append(chain, new_block)
                /\ ret' = [op |-> "add_document", arg |-> document_data,
                           value |-> [success |-> TRUE,
                                      block_number |-> new_block.index,
                                      block_hash |-> new_block.hash,
                                      timestamp |-> new_block.timestamp],
                           mined |-> 1]
    /\ UNCHANGED <<difficulty, file, tampered, pc, frame>>

verify_document(document_hash) ==
    /\ ret' = [op |-> "verify_document", arg |-> document_hash,
               value |-> verify_loop(chain, 1, document_hash), mined |-> 0]
    /\ UNCHANGED <<chain, difficulty, file, clock, tampered, pc, frame>>

\* Mutant: a validation that drops the blocks after the genesis block when
\* it finds the chain invalid.
is_chain_valid_dropping ==
    /\ ret' = [op |-> "is_chain_valid", arg |-> None,
               value |-> IsChainValid(chain), mined |-> 0]
    /\ chain' = IF IsChainValid(chain) THEN chain ELSE SubSeq(chain, 1, 1)
    /\ UNCHANGED <<difficulty, file, clock, tampered, pc, frame>>

is_chain_valid ==
    /\ ret' = [op |-> "is_chain_valid", arg |-> None,
               value |-> IsChainValid(chain), mined |-> 0]
    /\ UNCHANGED <<chain, difficulty, file, clock, tampered, pc, frame>>

get_all_documents ==
    /\ ret' = [op |-> "get_all_documents", arg |-> None,
               value |-> GetAllDocuments(chain), mined |-> 0]
    /\ UNCHANGED <<chain, difficulty, file, clock, tampered, pc, frame>>

get_documents_by_recipient(recipient_id) ==
    /\ ret' = [op |-> "get_documents_by_recipient", arg |-> recipient_id,
               value |-> GetDocumentsByRecipient(chain, recipient_id), mined |-> 0]
    /\ UNCHANGED <<chain, difficulty, file, clock, tampered, pc, frame>>

save_to_file ==
    /\ file' = [exists |-> TRUE, text |-> json_dump(chain)]
    /\ ret' = [op |-> "save_to_file", arg |-> None, value |-> None, mined |-> 0]
    /\ UNCHANGED <<chain, difficulty, clock, tampered, pc, frame>>

\* Mutant: self.chain = [] placed before the file is opened.
load_from_file_clearing_first ==
    /\ IF ~file.exists
       THEN /\ chain' = <<>>
            /\ ret' = [op |-> "load_from_file", arg |-> None,
                       value |-> FALSE, mined |-> 0]
       ELSE LET r == load_loop(json_load(file.text), 1, <<>>)
            IN  /\ chain' = r.chain
                /\ ret' = [op |-> "load_from_file", arg |-> None,
                           value |-> r.value, mined |-> 0]
    /\ UNCHANGED <<difficulty, file, clock, tampered, pc, frame>>

\* DocumentBlockchain.load_from_file: FileNotFoundError is caught before
\* self.chain is touched; any other exception leaves the loop where it was.
load_from_file ==
    /\ IF ~file.exists
       THEN /\ chain' = chain
            /\ ret' = [op |-> "load_from_file", arg |-> None,
                       value |-> FALSE, mined |-> 0]
       ELSE LET r == load_loop(json_load(file.text), 1, <<>>)
            IN  /\ chain' = r.chain
                /\ ret' = [op |-> "load_from_file", arg |-> None,
                           value |-> r.value, mined |-> 0]
    /\ UNCHANGED <<difficulty, file, clock, tampered, pc, frame>>

Construct == \E d \in Difficulties : DocumentBlockchain(d)

AddDocument == \E p \in Payloads : add_document(p)

VerifyDocument == \E h \in DocumentHashes : verify_document(h)

GetDocumentsByRecipientCall == \E r \in RecipientIds : get_documents_by_recipient(r)

Next ==
    \/ Construct
    \/ AddDocument
    \/ VerifyDocument
    \/ is_chain_valid
    \/ get_all_documents
    \/ GetDocumentsByRecipientCall
    \/ save_to_file
    \/ load_from_file

\* Sequential use of one ledger file by one process at a time.
Spec == Init /\ [][Next]_vars

\* ---------------------------------------------------- tampering tests
\* The values a tampering test writes into previous_hash.
WrongHashes(c) == {Sentinel, <<1>>} \cup {c[j].hash : j \in 1..Len(c)}

\* A test changes chain[i].data (i >= 1 in the code's numbering) and leaves
\* nonce and hash as they were.
TamperData ==
    /\ tampered = 0
    /\ \E pos \in 2..Len(chain) :
         \E d \in (Payloads \cup {GenesisData}) \ {chain[pos].data} :
            /\ chain' = [chain EXCEPT ![pos].data = d]
            /\ tampered' = pos
    /\ ret' = [op |-> "tamper", arg |-> "data", value |-> None, mined |-> 0]
    /\ UNCHANGED <<difficulty, file, clock, pc, frame>>

\* A test changes chain[i].previous_hash and leaves nonce and hash as they were.
TamperPreviousHash ==
    /\ tampered = 0
    /\ \E pos \in 2..Len(chain) :
         \E h \in WrongHashes(chain) \ {chain[pos].previous_hash} :
            /\ chain' = [chain EXCEPT ![pos].previous_hash = h]
            /\ tampered' = pos
    /\ ret' = [op |-> "tamper", arg |-> "previous_hash", value |-> None, mined |-> 0]
    /\ UNCHANGED <<difficulty, file, clock, pc, frame>>

NextTamper ==
    \/ AddDocument
    \/ TamperData
    \/ TamperPreviousHash
    \/ is_chain_valid

\* The tampering tests: a fresh ledger, sequential appends, one mutation.
SpecTamper == Init /\ [][NextTamper]_vars

\* The read-only operations on a ledger that grows and that a test mutates.
NextRead ==
    \/ AddDocument
    \/ TamperData
    \/ VerifyDocument
    \/ is_chain_valid
    \/ get_all_documents
    \/ GetDocumentsByRecipientCall
    \/ save_to_file

SpecRead == Init /\ [][NextRead]_vars

\* ------------------------------------------- the file edited from outside
RemoveAt(s, i) == SubSeq(s, 1, i - 1) \o SubSeq(s, i + 1, Len(s))

\* The pairs of a JSON object with the value of `key` replaced by v.
SetPair(pairs, key, v) ==
    [i \in 1..Len(pairs) |-> IF pairs[i][1] = key THEN <<key, v>> ELSE pairs[i]]

PairValue(pairs, key) ==
    pairs[CHOOSE i \in 1..Len(pairs) : pairs[i][1] = key][2]

\* What somebody other than the ledger leaves in blockchain_data.json: the
\* text the ledger saved with one change (the array emptied, one record
\* removed, or the last record's index raised, data replaced or nonce
\* removed), once in a behaviour.
EditedFiles(text) ==
    LET n == Len(text)
        other == [type |-> "document", document_hash |-> "h2", recipient_id |-> "alice"]
    IN  {<<>>}
        \cup {RemoveAt(text, i) : i \in 1..n}
        \cup (IF n = 0 THEN {}
              ELSE { [text EXCEPT ![n] = SetPair(text[n], "index",
                                                 PairValue(text[n], "index") + 1)],
                     [text EXCEPT ![n] = SetPair(text[n], "data",
                                                 DumpObject(other, KeyOrder))],
                     [text EXCEPT ![n] = SelectSeq(text[n], LAMBDA pr : pr[1] # "nonce")] })

EnvWriteFile ==
    /\ tampered = 0
    /\ file.exists
    /\ \E text \in EditedFiles(file.text) :
         /\ file' = [exists |-> TRUE, text |-> text]
         /\ tampered' = 1
    /\ ret' = [op |-> "edit", arg |-> None, value |-> None, mined |-> 0]
    /\ UNCHANGED <<chain, difficulty, clock, pc, frame>>

NextExt ==
    \/ Construct
    \/ AddDocument
    \/ is_chain_valid
    \/ save_to_file
    \/ load_from_file
    \/ EnvWriteFile

\* The ledger beside a file that is not only the ledger's to write.
SpecExt == Init /\ [][NextExt]_vars

\* ------------------------------------------- statement by statement
\* The thread that imports the module and so constructs and loads the ledger.
MainThread == 1

\* No thread is inside an operation.
Idle == \A t \in Threads : pc[t] = "idle"

\* The statements at which a thread holds a constructed Block in its locals.
BlockLabels == {"mine", "hash", "append", "load_nonce", "load_hash", "load_append"}

Goto(t, label, f) ==
    /\ pc' = [pc EXCEPT ![t] = label]
    /\ frame' = [frame EXCEPT ![t] = f]

\* What load_from_file leaves when a lookup in block_data raises KeyError.
RaiseKeyError(t) ==
    /\ ret' = [op |-> "load_from_file", arg |-> None, value |-> "KeyError", mined |-> 0]
    /\ Goto(t, "idle", NoFrame)

\* DocumentBlockchain.__init__ up to the Block(...) of create_genesis_block,
\* in a process that has just started.
InitBegin(d) ==
    /\ Idle
    /\ clock < MaxClock
    /\ chain' = <<>>
    /\ difficulty' = d
    /\ clock' = clock + 1
    /\ Goto(MainThread, "mine",
            [op |-> "create_genesis_block",
             block |-> Block(0, clock + 1, GenesisData, Sentinel)])
    /\ UNCHANGED <<file, tampered, ret>>

\* Mutant: the new block handed to append without mine_block.
AddBeginUnsealed(t, document_data) ==
    /\ pc[t] = "idle"
    /\ \A u \in Threads : frame[u].op \notin {"create_genesis_block", "load_from_file"}
    /\ clock < MaxClock
    /\ chain # <<>>
    /\ clock' = clock + 1
    /\ Goto(t, "append",
            [op |-> "add_document",
             block |-> Block(Len(chain), clock + 1, document_data,
                             get_latest_block(chain).hash)])
    /\ UNCHANGED <<chain, difficulty, file, tampered, ret>>

\* add_document up to new_block = Block(...): a request handler reads the
\* chain's length and its tip while other handlers may be inside add_document.
AddBegin(t, document_data) ==
    /\ pc[t] = "idle"
    /\ \A u \in Threads : frame[u].op \notin {"create_genesis_block", "load_from_file"}
    /\ clock < MaxClock
    /\ chain # <<>>
    /\ clock' = clock + 1
    /\ Goto(t, "mine",
            [op |-> "add_document",
             block |-> Block(Len(chain), clock + 1, document_data,
                             get_latest_block(chain).hash)])
    /\ UNCHANGED <<chain, difficulty, file, tampered, ret>>

\* Mutant: the loop tries every other nonce.
MineTestByTwo(t) ==
    /\ pc[t] = "mine"
    /\ IF Take(frame[t].block.hash, difficulty) # Zeros(difficulty)
       THEN Goto(t, "hash", [frame[t] EXCEPT !.block.nonce = @ + 2])
       ELSE Goto(t, "append", frame[t])
    /\ UNCHANGED <<chain, difficulty, file, clock, tampered, ret>>

\* mine_block: the loop test, and self.nonce += 1 when it holds.
MineTest(t) ==
    /\ pc[t] = "mine"
    /\ IF Take(frame[t].block.hash, difficulty) # Zeros(difficulty)
       THEN Goto(t, "hash", [frame[t] EXCEPT !.block.nonce = @ + 1])
       ELSE Goto(t, "append", frame[t])
    /\ UNCHANGED <<chain, difficulty, file, clock, tampered, ret>>

\* mine_block: self.hash = self.calculate_hash()
MineHash(t) ==
    /\ pc[t] = "hash"
    /\ Goto(t, "mine", [frame[t] EXCEPT !.block.hash = calculate_hash(frame[t].block)])
    /\ UNCHANGED <<chain, difficulty, file, clock, tampered, ret>>

\* self.chain.append(...) and the return of add_document or of the constructor.
AppendBlock(t) ==
    /\ pc[t] = "append"
    /\ LET block == frame[t].block
       IN  /\ chain' = Append(chain, block)
           /\ ret' = IF frame[t].op = "add_document"
                     THEN [op |-> "add_document", arg |-> block.data,
                           value |-> [success |-> TRUE,
                                      block_number |-> block.index,
                                      block_hash |-> block.hash,
                                      timestamp |-> block.timestamp],
                           mined |-> 1]
                     ELSE [op |-> "DocumentBlockchain", arg |-> difficulty,
                           value |-> None, mined |-> 1]
    /\ Goto(t, "idle", NoFrame)
    /\ UNCHANGED <<difficulty, file, clock, tampered>>

\* load_from_file up to self.chain = [].
LoadBegin ==
    /\ Idle
    /\ IF ~file.exists
       THEN /\ ret' = [op |-> "load_from_file", arg |-> None,
                       value |-> FALSE, mined |-> 0]
            /\ UNCHANGED <<chain, pc, frame>>
       ELSE /\ chain' = <<>>
            /\ Goto(MainThread, "load_next",
                    [op |-> "load_from_file", chain_data |-> json_load(file.text),
                     i |-> 1])
            /\ UNCHANGED ret
    /\ UNCHANGED <<difficulty, file, clock, tampered>>

\* load_from_file: the loop head and block = Block(...), or return True.
LoadNext(t) ==
    /\ pc[t] = "load_next"
    /\ LET f == frame[t]
       IN  IF f.i > Len(f.chain_data)
           THEN /\ ret' = [op |-> "load_from_file", arg |-> None,
                           value |-> TRUE, mined |-> 0]
                /\ Goto(t, "idle", NoFrame)
           ELSE LET block_data == f.chain_data[f.i]
                IN  IF \E k \in {"index", "timestamp", "data", "previous_hash"} :
                           k \notin DOMAIN block_data
                    THEN RaiseKeyError(t)
                    ELSE /\ Goto(t, "load_nonce",
                                 [op |-> "load_from_file", chain_data |-> f.chain_data,
                                  i |-> f.i,
                                  block |-> Block(block_data["index"],
                                                  block_data["timestamp"],
                                                  block_data["data"],
                                                  block_data["previous_hash"])])
                         /\ UNCHANGED ret
    /\ UNCHANGED <<chain, difficulty, file, clock, tampered>>

\* load_from_file: block.nonce = block_data["nonce"]
LoadNonce(t) ==
    /\ pc[t] = "load_nonce"
    /\ LET block_data == frame[t].chain_data[frame[t].i]
       IN  IF "nonce" \notin DOMAIN block_data
           THEN RaiseKeyError(t)
           ELSE /\ Goto(t, "load_hash",
                        [frame[t] EXCEPT !.block.nonce = block_data["nonce"]])
                /\ UNCHANGED ret
    /\ UNCHANGED <<chain, difficulty, file, clock, tampered>>

\* load_from_file: block.hash = block_data["hash"]
LoadHash(t) ==
    /\ pc[t] = "load_hash"
    /\ LET block_data == frame[t].chain_data[frame[t].i]
       IN  IF "hash" \notin DOMAIN block_data
           THEN RaiseKeyError(t)
           ELSE /\ Goto(t, "load_append",
                        [frame[t] EXCEPT !.block.hash = block_data["hash"]])
                /\ UNCHANGED ret
    /\ UNCHANGED <<chain, difficulty, file, clock, tampered>>

\* load_from_file: self.chain.append(block)
LoadAppend(t) ==
    /\ pc[t] = "load_append"
    /\ chain' = Append(chain, frame[t].block)
    /\ Goto(t, "load_next",
            [op |-> "load_from_file", chain_data |-> frame[t].chain_data,
             i |-> frame[t].i + 1])
    /\ UNCHANGED <<difficulty, file, clock, tampered, ret>>

StepConstruct == \E d \in Difficulties : InitBegin(d)

\* A request is served by the first thread that is free.
StepAdd ==
    \E t \in Threads :
        /\ \A u \in Threads : u < t => pc[u] # "idle"
        /\ \E p \in Payloads : AddBegin(t, p)

StepMineTest == \E t \in Threads : MineTest(t)

StepMineHash == \E t \in Threads : MineHash(t)

StepAppend == \E t \in Threads : AppendBlock(t)

StepLoadNext == \E t \in Threads : LoadNext(t)

StepLoadNonce == \E t \in Threads : LoadNonce(t)

StepLoadHash == \E t \in Threads : LoadHash(t)

StepLoadAppend == \E t \in Threads : LoadAppend(t)

NextSteps ==
    \/ StepConstruct
    \/ StepAdd
    \/ StepMineTest
    \/ StepMineHash
    \/ StepAppend
    \/ LoadBegin
    \/ StepLoadNext
    \/ StepLoadNonce
    \/ StepLoadHash
    \/ StepLoadAppend
    \/ is_chain_valid
    \/ save_to_file

\* The ledger one statement at a time: a process starts (constructor, then
\* load_from_file), then its request handlers run add_document concurrently.
SpecSteps == Init /\ [][NextSteps]_vars

\* The statements of the constructor and of concurrent add_document calls,
\* with is_chain_valid as the reader that runs between them.
NextRace ==
    \/ StepConstruct
    \/ StepAdd
    \/ StepMineTest
    \/ StepMineHash
    \/ StepAppend
    \/ is_chain_valid

SpecRace == Init /\ [][NextRace]_vars

TypeOK ==
    /\ difficulty \in Difficulties
    /\ clock \in 1..MaxClock
    /\ Len(chain) \in 0..MaxClock
    /\ tampered \in 0..MaxClock
    /\ pc \in [Threads -> {"idle"} \cup BlockLabels \cup {"load_next"}]

\* ------------------------------------------------------------- claims
\* I1 for one block: the stored hash is the digest of the block's fields.
DigestConsistent(b) == b.hash = calculate_hash(b)

\* I2 at position pos >= 2 of chain c (the code's i = pos - 1).
Linked(c, pos) == c[pos].previous_hash = c[pos - 1].hash

\* I3 for one block at difficulty d.
HasPrefix(b, d) == Take(b.hash, d) = Zeros(d)

IsPrefix(s, t) == Len(s) <= Len(t) /\ SubSeq(t, 1, Len(s)) = s

\* C1: right after construction and right after every add_document,
\* is_chain_valid() returns True.
C1_ValidAfterAppend ==
    ret.op \in {"DocumentBlockchain", "add_document"} => IsChainValid(chain)

\* C1 witness: a third block has just been appended after real mining.
C1_Witness ==
    /\ ret.op = "add_document"
    /\ Len(chain) = 3
    /\ chain[3].nonce > 0
    /\ IsChainValid(chain)

\* C2: once a test has changed the data or the previous_hash of a
\* non-genesis block without resealing it, is_chain_valid() returns False.
C2_TamperDetected ==
    tampered # 0 =>
        /\ ~IsChainValid(chain)
        /\ (ret.op = "is_chain_valid" => ret.value = FALSE)

\* C2 witness: is_chain_valid has answered False on a chain whose middle
\* block was tampered with and which has grown since.
C2_Witness ==
    /\ tampered = 2
    /\ Len(chain) = 3
    /\ ret.op = "is_chain_valid"
    /\ ret.value = FALSE

\* C3 (I2): the genesis block's previous_hash is the sentinel "0" and every
\* later block's previous_hash is its predecessor's hash.
C3_HashLinkage ==
    \A pos \in 1..Len(chain) :
        IF pos = 1 THEN chain[pos].previous_hash = Sentinel ELSE Linked(chain, pos)

\* C3 witness: a chain of three blocks has been loaded from the file the
\* ledger saved.
C3_Witness ==
    /\ ret.op = "load_from_file"
    /\ ret.value = TRUE
    /\ Len(chain) = 3
    /\ chain[3].nonce > 0

\* C4 (I4): the block at position i of the chain (counted from 0) has
\* index i.
C4_IndexNumbering ==
    \A pos \in 1..Len(chain) : chain[pos].index = pos - 1

\* C5: within one ledger instance the chain before an operation is a prefix
\* of the chain after it (a step that constructs a new ledger starts a new
\* instance and is not compared).
C5_AppendOnly ==
    [][ret'.op # "DocumentBlockchain" => IsPrefix(chain, chain')]_vars

\* What save_to_file followed by load_from_file makes of chain c.
SaveThenLoad(c) == load_loop(json_load(json_dump(c)), 1, <<>>)

\* C6: save_to_file followed by load_from_file gives back the same chain,
\* field for field; it is valid and lists the same documents; the load
\* printed no "Block mined" line; a loaded chain is the chain the file holds.
C6_RoundTrip ==
    /\ SaveThenLoad(chain).value = TRUE
    /\ SaveThenLoad(chain).chain = chain
    /\ IsChainValid(SaveThenLoad(chain).chain)
    /\ GetAllDocuments(SaveThenLoad(chain).chain) = GetAllDocuments(chain)
    /\ (ret.op = "save_to_file" => file.text = json_dump(chain))
    /\ (ret.op = "load_from_file" /\ file.exists =>
            /\ ret.value = TRUE
            /\ ret.mined = 0
            /\ json_dump(chain) = file.text
            /\ IsChainValid(chain))

\* C6 witness: a ledger constructed at a higher difficulty has loaded a file
\* that holds a document sealed with real mining.
C6_Witness ==
    /\ ret.op = "load_from_file"
    /\ ret.value = TRUE
    /\ Len(chain) = 2
    /\ Len(GetAllDocuments(chain)) = 1
    /\ chain[2].nonce > 0
    /\ \E pos \in 1..Len(chain) : ~HasPrefix(chain[pos], difficulty)

\* C7: the chain is never empty and its first block is the genesis marker.
C7_GenesisFirst ==
    /\ Len(chain) >= 1
    /\ Get(chain[1].data, "type") = "genesis"

\* I3 for the whole chain at the ledger's difficulty.
AllSealed == \A pos \in 1..Len(chain) : HasPrefix(chain[pos], difficulty)

\* C8 as claimed: every block in the chain has a hash that starts with
\* `difficulty` zeros, difficulty being the ledger's.
C8_PrefixAlways == AllSealed

\* C8 amended: construction establishes I3 for the ledger's difficulty and
\* every operation other than load_from_file keeps it.
C8_PrefixUnlessLoaded ==
    /\ AllSealed
    /\ [][(ret'.op = "DocumentBlockchain" \/ (ret'.op # "load_from_file" /\ AllSealed))
            => AllSealed']_vars

\* C8 witness: at difficulty 3 a ledger holds three blocks it sealed itself,
\* each after real mining.
C8_Witness ==
    /\ difficulty = 3
    /\ ret.op = "add_document"
    /\ Len(chain) = 3
    /\ \A pos \in 1..3 : chain[pos].nonce > 0 /\ chain[pos].timestamp = pos
    /\ AllSealed

\* C9: is_chain_valid() returns True exactly when every non-genesis block
\* has a consistent digest (I1) and is linked to its predecessor (I2); the
\* prefix (I3) plays no part.
C9_ValidIffI1I2 ==
    ret.op = "is_chain_valid" =>
        (ret.value = TRUE <=>
            \A pos \in 2..Len(chain) :
                DigestConsistent(chain[pos]) /\ Linked(chain, pos))

\* C9 witness: is_chain_valid has returned True on a chain with a block
\* whose hash lacks the ledger's prefix.
C9_Witness ==
    /\ ret.op = "is_chain_valid"
    /\ ret.value = TRUE
    /\ Len(chain) >= 2
    /\ \E pos \in 2..Len(chain) : ~HasPrefix(chain[pos], difficulty)

\* C10: add_document on a chain of length n >= 1 appends one block with
\* index n, the payload, and the old tip's hash as previous_hash; it returns
\* block_number n and the new tip's hash and timestamp.
C10_AddDocument ==
    [][(ret'.op = "add_document" /\ Len(chain) >= 1) =>
          LET n == Len(chain)
          IN  /\ Len(chain') = n + 1
              /\ SubSeq(chain', 1, n) = chain
              /\ chain'[n + 1].index = n
              /\ chain'[n + 1].data = ret'.arg
              /\ chain'[n + 1].previous_hash = chain[n].hash
              /\ ret'.value.success = TRUE
              /\ ret'.value.block_number = n
              /\ ret'.value.block_hash = chain'[n + 1].hash
              /\ ret'.value.timestamp = chain'[n + 1].timestamp]_vars

\* C10 witness: a block has been appended to a chain loaded from a file
\* whose first record somebody removed, so that indices and positions differ.
C10_Witness ==
    /\ ret.op = "add_document"
    /\ Len(chain) = 2
    /\ chain[1].index = 1
    /\ chain[2].index = 1
    /\ ret.value.block_number = 1

\* The positions (1-based) of the blocks of chain[1:] whose payload has
\* document_hash h.
MatchingPositions(c, h) ==
    {pos \in 2..Len(c) : Get(c[pos].data, "document_hash") = h}

\* C11: verify_document(h) returns None when no block of chain[1:] has
\* document_hash h, and otherwise the block_number, timestamp and data of
\* the lowest-position such block; the genesis block is never returned.
C11_VerifyDocument ==
    ret.op = "verify_document" =>
        LET matches == MatchingPositions(chain, ret.arg)
        IN  IF matches = {}
            THEN ret.value = None
            ELSE LET first == CHOOSE p \in matches : \A q \in matches : p <= q
                 IN  /\ ret.value.valid = TRUE
                     /\ ret.value.block_number = chain[first].index
                     /\ ret.value.timestamp = chain[first].timestamp
                     /\ ret.value.data = chain[first].data
                     /\ ret.value.data # chain[1].data

\* C11 witness: two blocks hold the looked-up document_hash and the record
\* of the older one has been returned.
C11_Witness ==
    /\ ret.op = "verify_document"
    /\ Cardinality(MatchingPositions(chain, ret.arg)) = 2
    /\ ret.value.block_number = 1
    /\ ret.value.timestamp < chain[3].timestamp

\* C11 witness of the miss: on a genesis-only ledger the lookup returned None.
C11_WitnessNone ==
    /\ ret.op = "verify_document"
    /\ Len(chain) = 1
    /\ ret.value = None

\* The positions (1-based) of the blocks of chain[1:] whose payload has the
\* value wanted under key.
FilterPositions(c, key, wanted) ==
    {pos \in 2..Len(c) : Get(c[pos].data, key) = wanted}

\* records holds one record for every position of matches and no others, in
\* chain order, each the block's payload with its block_number and timestamp.
IsListing(records, c, matches) ==
    /\ Len(records) = Cardinality(matches)
    /\ \A pos \in matches :
          LET n == Cardinality({q \in matches : q <= pos})
              block == c[pos]
          IN  /\ DOMAIN records[n] = DOMAIN block.data \cup {"block_number", "timestamp"}
              /\ records[n].block_number = block.index
              /\ records[n].timestamp = block.timestamp
              /\ \A k \in DOMAIN block.data : records[n][k] = block.data[k]

\* C12: get_documents_by_recipient(r) returns one record for every block of
\* chain[1:] whose data has recipient_id r, get_all_documents() one for every
\* block of chain[1:] whose data has type "document", and no others, oldest
\* first, each with its block_number and timestamp; empty when nothing matches.
C12_FilterQueries ==
    /\ ret.op = "get_documents_by_recipient" =>
          IsListing(ret.value, chain, FilterPositions(chain, "recipient_id", ret.arg))
    /\ ret.op = "get_all_documents" =>
          IsListing(ret.value, chain, FilterPositions(chain, "type", "document"))

\* C12 witness: a recipient's two blocks have been listed, the older first,
\* from a chain on which get_all_documents would list only one block.
C12_Witness ==
    /\ ret.op = "get_documents_by_recipient"
    /\ Len(ret.value) = 2
    /\ ret.value[1].block_number = 1
    /\ ret.value[2].block_number = 2
    /\ Cardinality(FilterPositions(chain, "type", "document")) = 1

\* The operations that only read the ledger.
ReadOnlyOps ==
    {"is_chain_valid", "verify_document", "get_documents_by_recipient",
     "get_all_documents", "save_to_file"}

\* C13: is_chain_valid, verify_document, get_documents_by_recipient,
\* get_all_documents and save_to_file leave every field of every block of
\* chain and difficulty unchanged, and the result is_chain_valid returns is
\* the result a further call on the ledger it leaves would return.
C13_ReadOnly ==
    [][ret'.op \in ReadOnlyOps =>
          /\ chain' = chain
          /\ difficulty' = difficulty
          /\ ret'.op = "is_chain_valid" => ret'.value = IsChainValid(chain')]_vars

\* C13 witness: is_chain_valid has returned False on a mutated chain of
\* three blocks that save_to_file had written out as it is.
C13_Witness ==
    /\ ret.op = "is_chain_valid"
    /\ ret.value = FALSE
    /\ tampered > 0
    /\ Len(chain) = 3
    /\ file = [exists |-> TRUE, text |-> json_dump(chain)]

\* C14: load_from_file without a blockchain_data.json returns False, raises
\* nothing and leaves chain exactly as it was.
C14_LoadMissing ==
    [][(ret'.op = "load_from_file" /\ ~file.exists) =>
          /\ ret'.value = FALSE
          /\ chain' = chain
          /\ UNCHANGED <<difficulty, file>>]_vars

\* C14 witness: a ledger constructed where no file exists has called
\* load_from_file, got False, and still holds its genesis block alone.
C14_Witness ==
    /\ ret.op = "load_from_file"
    /\ ret.value = FALSE
    /\ ~file.exists
    /\ Len(chain) = 1
    /\ chain[1].data = GenesisData
    /\ HasPrefix(chain[1], difficulty)
    /\ difficulty = 2

\* The records of a parsed file form valid Block records: each holds the six
\* fields and the indices are 0, 1, 2, ... in order.
ValidRecords(chain_data) ==
    \A i \in 1..Len(chain_data) :
        /\ ~RaisesKeyError(chain_data[i])
        /\ chain_data[i]["index"] = i - 1

\* C15: load_from_file on a file whose records are not valid Block records
\* (a field missing, indices not 0, 1, 2, ... in order) does not return True.
C15_CorruptLoadFails ==
    (ret.op = "load_from_file" /\ file.exists /\ ~ValidRecords(json_load(file.text)))
        => ToString(ret.value) # "TRUE"

\* Every Block that exists: the blocks of the chain and the blocks that
\* threads hold in their locals between construction and append.
LiveBlocks ==
    {chain[pos] : pos \in 1..Len(chain)}
        \cup {frame[t].block : t \in {u \in Threads : pc[u] \in BlockLabels}}

\* C16: at every statement boundary, inside mine_block and inside
\* load_from_file too, every constructed Block's hash equals calculate_hash()
\* of its current fields (I1).
C16_DigestAlways == \A b \in LiveBlocks : DigestConsistent(b)

\* C16 inside load_from_file alone: the Block being rebuilt keeps I1 between
\* the assignment of the stored nonce and the assignment of the stored hash.
C16_DigestDuringLoad ==
    \A t \in Threads : pc[t] = "load_hash" => DigestConsistent(frame[t].block)

\* Two blocks of c claim the same index or the same predecessor.
HasTwins(c) ==
    \E i, j \in 1..Len(c) :
        /\ i < j
        /\ \/ c[i].index = c[j].index
           \/ c[i].previous_hash = c[j].previous_hash

\* C17: a chain on which interleaved add_document calls have left two blocks
\* with the same index or the same previous_hash violates I2 and I4, and
\* is_chain_valid() returns False on it.
C17_RaceBreaksChain ==
    HasTwins(chain) =>
        /\ \E pos \in 2..Len(chain) : ~Linked(chain, pos)
        /\ \E pos \in 1..Len(chain) : chain[pos].index # pos - 1
        /\ ~IsChainValid(chain)
        /\ ret.op = "is_chain_valid" => ret.value = FALSE

\* C17 witness: two add_document calls both read the genesis block as the
\* tip, both sealed and appended their block, and is_chain_valid returned
\* False on the result.
C17_Witness ==
    /\ ret.op = "is_chain_valid"
    /\ ret.value = FALSE
    /\ Idle
    /\ Len(chain) = 3
    /\ chain[2].index = 1
    /\ chain[3].index = 1
    /\ chain[2].previous_hash = chain[1].hash
    /\ chain[3].previous_hash = chain[1].hash
    /\ \A pos \in 1..3 : DigestConsistent(chain[pos]) /\ HasPrefix(chain[pos], difficulty)

\* A step of the constructor or of add_document, as opposed to a step of
\* load_from_file.
SealingStep ==
    \A t \in Threads : frame[t].op # "load_from_file" /\ frame'[t].op # "load_from_file"

\* C18: a block enters the chain only when mine_block has returned: every
\* step inside the constructor or add_document either leaves the chain as it
\* is (or empties it, at construction) or appends one block that a thread
\* had finished sealing, with hash == calculate_hash() and the difficulty
\* prefix; no block already in the chain changes.
C18_NoUnsealedVisible ==
    [][SealingStep =>
          \/ chain' = chain
          \/ chain' = <<>>
          \/ \E t \in Threads :
                /\ pc[t] = "append"
                /\ pc'[t] = "idle"
                /\ chain' = Append(chain, frame[t].block)
                /\ DigestConsistent(frame[t].block)
                /\ HasPrefix(frame[t].block, difficulty)]_vars

\* C18 witness: a sealed block with a nonce above 0 is in the chain while
\* the other thread is between its nonce increment and its hash assignment,
\* and is_chain_valid has just read the chain.
C18_Witness ==
    /\ Len(chain) = 2
    /\ chain[2].nonce > 0
    /\ HasPrefix(chain[2], difficulty)
    /\ difficulty = 2
    /\ \E t \in Threads :
          /\ pc[t] = "hash"
          /\ frame[t].op = "add_document"
          /\ ~DigestConsistent(frame[t].block)
    /\ ret.op = "is_chain_valid"
    /\ ret.value = TRUE

\* C19: in a startup that loads a persisted chain (the constructor followed
\* at once by a load_from_file that returns True), the constructor has
\* built and mined no genesis block.
C19_NoGenesisWhenLoaded ==
    [][(ret.op = "DocumentBlockchain" /\ ret'.op = "load_from_file" /\ file.exists)
          => (ret.mined = 0 /\ chain = <<>>)]_vars

\* The digest the block b would have with nonce n.
DigestWithNonce(b, n) == calculate_hash([b EXCEPT !.nonce = n])

\* C20: every statement of mine_block leaves the block's index, timestamp,
\* data and previous_hash as they are; when the loop exits, nonce is the
\* smallest n >= 0 whose digest starts with `difficulty` zeros and hash is
\* that digest; at difficulty 0 the loop exits at once, with nonce 0 and the
\* hash the constructor computed.
C20_MineBlock ==
    [][\A t \in Threads :
          (pc[t] \in {"mine", "hash"} /\ pc'[t] \in {"mine", "hash", "append"}) =>
              LET b == frame[t].block
                  sealed == frame'[t].block
                  fresh == Block(b.index, b.timestamp, b.data, b.previous_hash)
              IN  /\ sealed.index = b.index
                  /\ sealed.timestamp = b.timestamp
                  /\ sealed.data = b.data
                  /\ sealed.previous_hash = b.previous_hash
                  /\ pc'[t] = "append" =>
                        /\ Take(DigestWithNonce(fresh, sealed.nonce), difficulty)
                               = Zeros(difficulty)
                        /\ \A n \in 0..(sealed.nonce - 1) :
                               Take(DigestWithNonce(fresh, n), difficulty)
                                   # Zeros(difficulty)
                        /\ sealed.hash = DigestWithNonce(fresh, sealed.nonce)
                        /\ sealed = mine_block(fresh, difficulty)
                        /\ difficulty = 0 => sealed = fresh]_vars

\* C20 witness: mine_block has returned at difficulty 3 after more than two
\* passes of its loop.
C20_Witness ==
    \E t \in Threads :
        /\ pc[t] = "append"
        /\ difficulty = 3
        /\ frame[t].block.nonce > 2
        /\ HasPrefix(frame[t].block, 3)

\* C20 witness at difficulty 0: mine_block has returned the block as built.
C20_WitnessZero ==
    \E t \in Threads :
        /\ pc[t] = "append"
        /\ difficulty = 0
        /\ frame[t].block.nonce = 0

\* C21: a load_from_file that does not return True (it returns False or
\* raises) leaves chain exactly as it was before the call.
C21_FailedLoadAtomic ==
    [][(ret'.op = "load_from_file" /\ ToString(ret'.value) # "TRUE")
          => chain' = chain]_vars

\* The document hashes that add_document's payloads register.
PayloadHashes == {p.document_hash : p \in Payloads}

\* C22: for a document_hash that verify_document finds, an add_document
\* leaves the record verify_document returns (block_number, timestamp, data)
\* as it is, also when the new block registers the same document_hash; so
\* the record stays the same over any number of sequential appends.
C22_LookupStable ==
    [][ret'.op = "add_document" =>
          \A h \in PayloadHashes :
              MatchingPositions(chain, h) # {} =>
                  verify_loop(chain', 1, h) = verify_loop(chain, 1, h)]_vars

\* C22 witness: a document_hash registered at block 1 was registered again
\* at block 2 with another payload, and the lookup made after that returned
\* the record of block 1.
C22_Witness ==
    /\ ret.op = "verify_document"
    /\ Len(chain) = 3
    /\ Get(chain[2].data, "document_hash") = ret.arg
    /\ Get(chain[3].data, "document_hash") = ret.arg
    /\ chain[2].data # chain[3].data
    /\ ret.value.data = chain[2].data
    /\ ret.value.timestamp = chain[2].timestamp
    /\ ret.value.block_number = 1

=============================================================================
